---- MODULE Spec2Model ----
(***************************************************************************)
(* Scan-task scheduling of be/src/vec/exec/scan/scanner_scheduler.h.       *)
(*                                                                         *)
(* SimplifiedScanScheduler (the per-workload scheduler) is modelled from   *)
(* its inline code: the constructor, start(), stop(), the destructor and   *)
(* the worker loop _work(), each as the sequence of atomic steps its       *)
(* threads take.  BlockingQueue, ThreadPool and the bodies of              *)
(* ScannerScheduler are only declared in that header; they are modelled    *)
(* from the design document (queue: bounded, blocking, FIFO, with a        *)
(* shutdown signal; pool: shutdown and wait; global scheduler: submit,     *)
(* stop, the fairness key of the priority pool).                           *)
(*                                                                         *)
(* The two scheduler types share no state.  A behaviour exercises one of   *)
(* them, chosen by sched in the initial state, so the reachable states are *)
(* the union of the two machines and not their product.                    *)
(***************************************************************************)
EXTENDS Naturals, Sequences, FiniteSets

(* ------------------------------ bounds -------------------------------- *)

\* config::doris_scanner_thread_pool_queue_size (line 107), scaled down
doris_scanner_thread_pool_queue_size == 2

\* config::doris_scanner_thread_pool_thread_num (lines 127, 128, 132), scaled down
doris_scanner_thread_pool_thread_num == 2

\* threads that enqueue through get_scan_queue()
NumProducers == 2

\* distinct scan tasks
NumTasks == 3

\* enqueue calls made in one behaviour
MaxPuts == 3

\* enqueue calls made from inside scan steps in one behaviour
MaxResubmits == 3

\* calls of stop() in one behaviour (the explicit one and the destructor's)
MaxStops == 2

\* scanner contexts that submit to the global scheduler
NumCtxs == 2

\* threads of each priority pool of the global scheduler
GThreads == 1

\* submit calls made to the global scheduler in one behaviour
GMaxSubmits == 4

Workers == 1..doris_scanner_thread_pool_thread_num
Producers == 1..NumProducers
Tasks == 1..NumTasks
StepTasks == 1..(NumTasks + MaxResubmits)
Ctxs == 1..NumCtxs
GWorkers == 1..GThreads
Lanes == {"local", "remote"}

VARIABLES
    sched,        \* "workload" or "global": the scheduler this behaviour exercises
    \* ---- SimplifiedScanScheduler ----
    is_stop,      \* _is_stop
    queue,        \* _scan_task_queue: the entries it holds, head first
    qshut,        \* _scan_task_queue: its shutdown signal
    pool,         \* _scan_thread_pool: "null", "running" or "shutdown"
    wpc,          \* where each worker of the pool is in _work()
    wcur,         \* the scan_task local of each worker's loop iteration
    opc,          \* where the owner thread is in start() / stop()
    oi,           \* the loop variable i of start()
    startStatus,  \* what start() returned: "none" (not returned), "ok", "error"
    stops,        \* number of stop() calls that have returned
    ppc,          \* where each producer is in blocking_put
    pitem,        \* the item of a producer waiting in blocking_put
    pres,         \* what each producer's last blocking_put returned
    nPuts,        \* blocking_put calls made so far
    putCount,     \* blocking_put calls that added an entry
    getCount,     \* blocking_get calls that returned an entry
    ran,          \* the tasks whose scan step has returned at least once
    known,        \* number of distinct tasks submitted so far
    wclosed,      \* the workers that are back at the loop test from a
                  \* blocking_get that returned the closed signal
    wafter,       \* per worker loop, the entries blocking_get has handed it
                  \* since the store to _is_stop
    wput,         \* the task that the step a worker runs is enqueueing (0: none)
    nResub,       \* blocking_put calls made from inside scan steps so far
    cur,          \* "A" or "B": the SimplifiedScanScheduler instance that the
                  \* variables above are the state of
    other,        \* the state of the other SimplifiedScanScheduler instance
    \* ---- ScannerScheduler ----
    g_is_init,    \* _is_init
    g_is_closed,  \* _is_closed
    gpc,          \* where the caller of ScannerScheduler::stop() is
    gstops,       \* number of ScannerScheduler::stop() calls that have returned
    pending,      \* the pending tasks of each priority pool
    grun,         \* the task each pool thread is executing
    service,      \* cumulative service each context has received
    gArr,         \* submissions accepted so far (arrival stamps)
    gSubmits,     \* submit calls made so far
    gRejected     \* submit calls rejected so far

wvars == <<is_stop, queue, qshut, pool, wpc, wcur, opc, oi, startStatus, stops,
           ppc, pitem, pres, nPuts, putCount, getCount, ran, known, wclosed,
           wafter, wput, nResub, cur, other>>

gvars == <<g_is_init, g_is_closed, gpc, gstops, pending, grun, service, gArr,
           gSubmits, gRejected>>

vars == <<sched, wvars, gvars>>

(* --------------------------- queue entries ---------------------------- *)

\* SimplifiedScanTask, with two history fields: seq numbers the entries in
\* the order their enqueues completed, waited tells that the enqueue had to
\* wait for a slot.
ScanTaskOf(t, n, w) == [task |-> t, seq |-> n, waited |-> w]

\* a default-constructed SimplifiedScanTask (scan_func empty)
NoTask == [task |-> 0, seq |-> 0, waited |-> FALSE]

\* the context a task belongs to
CtxOf(t) == ((t - 1) % NumCtxs) + 1

\* the scan source of the last context is broken: every step of its tasks
\* fails, and reports the error to the error sink of that context
Fails(t) == CtxOf(t) = NumCtxs

NoItem == [task |-> 0, stops |-> 0]
NoResult == [res |-> "none", stops |-> 0]

(* --------------------------- BlockingQueue ---------------------------- *)

\* a constructor that sizes the queue one entry too large
max_elements_plus_one == doris_scanner_thread_pool_queue_size + 1

\* the capacity the constructor gives the queue
max_elements == doris_scanner_thread_pool_queue_size

\* blocking_put leaves its wait when the queue is shut down or has a free slot
put_ready == qshut \/ Len(queue) < max_elements

\* blocking_get leaves its wait when the queue is shut down or holds an entry
get_ready == qshut \/ queue # <<>>

\* an enqueue that puts the entry at the head
push_front(q, e) == <<e>> \o q

\* the queue after an enqueue completed
push_back(q, e) == Append(q, e)

\* the entry a dequeue hands out
front(q) == Head(q)

\* a dequeue that leaves the entry it hands out in the queue
pop_front_keep(q) == q

\* the queue a dequeue leaves
pop_front(q) == Tail(q)

\* a task the environment may submit: it is not queued, not waiting in a
\* blocking_put and not executing (re-submission happens only after the prior
\* execution has returned)
Free(t) ==
    /\ \A i \in 1..Len(queue) : queue[i].task # t
    /\ \A p \in Producers : pitem[p].task # t
    /\ \A w \in Workers : wcur[w].task # t /\ wput[w] # t

\* the process is alive: no stop(), of either instance, has dereferenced a
\* null _scan_thread_pool
Alive == opc # "fault" /\ other.opc # "fault"

(* ------------------------ a second instance -------------------------- *)

\* the members of a SimplifiedScanScheduler and the state of its threads
\* and callers, as a record
ThisInstance ==
    [is_stop |-> is_stop, queue |-> queue, qshut |-> qshut, pool |-> pool,
     wpc |-> wpc, wcur |-> wcur, opc |-> opc, oi |-> oi,
     startStatus |-> startStatus, stops |-> stops, ppc |-> ppc,
     pitem |-> pitem, pres |-> pres, nPuts |-> nPuts, putCount |-> putCount,
     getCount |-> getCount, ran |-> ran, known |-> known,
     wclosed |-> wclosed, wafter |-> wafter, wput |-> wput,
     nResub |-> nResub]

\* an instance as its constructor leaves it
Constructed ==
    [is_stop |-> FALSE, queue |-> <<>>, qshut |-> FALSE, pool |-> "null",
     wpc |-> [w \in Workers |-> "none"], wcur |-> [w \in Workers |-> NoTask],
     opc |-> "idle", oi |-> 0, startStatus |-> "none", stops |-> 0,
     ppc |-> [p \in Producers |-> "idle"],
     pitem |-> [p \in Producers |-> NoItem],
     pres |-> [p \in Producers |-> NoResult], nPuts |-> 0, putCount |-> 0,
     getCount |-> 0, ran |-> {}, known |-> 0, wclosed |-> {},
     wafter |-> [w \in Workers |-> 0], wput |-> [w \in Workers |-> 0],
     nResub |-> 0]

\* an instance whose start() has returned OK and whose callers have made
\* their MaxPuts enqueues, tasks 1..MaxPuts in this order; all but the last
\* have been executed, the last is queued, the workers are at their loop test
StartedWithEntry ==
    [Constructed EXCEPT
        !.pool = "running",
        !.wpc = [w \in Workers |-> "check"],
        !.oi = doris_scanner_thread_pool_thread_num,
        !.startStatus = "ok",
        !.queue = <<ScanTaskOf(MaxPuts, MaxPuts, FALSE)>>,
        !.pres = [p \in Producers |->
                    IF p = 1 THEN [res |-> "ok", stops |-> 0] ELSE NoResult],
        !.nPuts = MaxPuts, !.putCount = MaxPuts, !.getCount = MaxPuts - 1,
        !.ran = 1..(MaxPuts - 1), !.known = MaxPuts]

\* the threads of the other instance are looked at: the two states change
\* places
Switch ==
    /\ sched = "workload"
    /\ cur' = IF cur = "A" THEN "B" ELSE "A"
    /\ other' = ThisInstance
    /\ is_stop' = other.is_stop
    /\ queue' = other.queue
    /\ qshut' = other.qshut
    /\ pool' = other.pool
    /\ wpc' = other.wpc
    /\ wcur' = other.wcur
    /\ opc' = other.opc
    /\ oi' = other.oi
    /\ startStatus' = other.startStatus
    /\ stops' = other.stops
    /\ ppc' = other.ppc
    /\ pitem' = other.pitem
    /\ pres' = other.pres
    /\ nPuts' = other.nPuts
    /\ putCount' = other.putCount
    /\ getCount' = other.getCount
    /\ ran' = other.ran
    /\ known' = other.known
    /\ wclosed' = other.wclosed
    /\ wafter' = other.wafter
    /\ wput' = other.wput
    /\ nResub' = other.nResub
    /\ UNCHANGED <<sched, gvars>>

(* -------------------- blocking_put through get_scan_queue ------------- *)

\* the body of blocking_put once its wait is over, for producer p and task t
\* of a call made when c stop() calls had returned; w: the call had to wait
PutFinish(p, t, c, w) ==
    /\ ppc' = [ppc EXCEPT ![p] = "idle"]
    /\ pitem' = [pitem EXCEPT ![p] = NoItem]
    /\ IF qshut
       THEN /\ pres' = [pres EXCEPT ![p] = [res |-> "closed", stops |-> c]]
            /\ UNCHANGED <<queue, putCount>>
       ELSE /\ queue' = push_back(queue, ScanTaskOf(t, putCount + 1, w))
            /\ putCount' = putCount + 1
            /\ pres' = [pres EXCEPT ![p] = [res |-> "ok", stops |-> c]]

\* get_scan_queue()->blocking_put(task): completes at once, or starts to wait.
\* Task identities are names only: a task is a resubmitted one or the next
\* new one, so the tasks are numbered in the order of their first submission.
PutCall(p, t) ==
    /\ sched = "workload" /\ Alive
    /\ ppc[p] = "idle"
    /\ nPuts < MaxPuts
    /\ Free(t)
    /\ t <= known + 1
    /\ known' = IF t > known THEN t ELSE known
    /\ nPuts' = nPuts + 1
    /\ IF put_ready
       THEN PutFinish(p, t, stops, FALSE)
       ELSE /\ ppc' = [ppc EXCEPT ![p] = "put_wait"]
            /\ pitem' = [pitem EXCEPT ![p] = [task |-> t, stops |-> stops]]
            /\ UNCHANGED <<queue, putCount, pres>>
    /\ UNCHANGED <<gvars, sched, cur, other, wput, nResub, wclosed, wafter,
                   ran, is_stop, qshut, pool, wpc, wcur, opc, oi, startStatus,
                   stops, getCount>>

\* a producer waiting in blocking_put is woken
PutWake(p) ==
    /\ sched = "workload" /\ Alive
    /\ ppc[p] = "put_wait"
    /\ put_ready
    /\ PutFinish(p, pitem[p].task, pitem[p].stops, TRUE)
    /\ UNCHANGED <<gvars, sched, cur, other, wput, nResub, wclosed, wafter,
                   ran, known, is_stop, qshut, pool, wpc, wcur, opc, oi,
                   startStatus, stops, nPuts, getCount>>

(* ------------------------------- _work -------------------------------- *)

\* a loop whose test does not look at _is_stop
WorkCheckNoFlag(w) ==
    /\ sched = "workload" /\ Alive
    /\ wpc[w] = "check"
    /\ wpc' = [wpc EXCEPT ![w] = "get"]
    /\ wclosed' = wclosed \ {w}
    /\ UNCHANGED <<gvars, sched, cur, other, wput, nResub, wafter, ran, known,
                   is_stop, queue, qshut, pool, wcur, opc, oi, startStatus,
                   stops, ppc, pitem, pres, nPuts, putCount, getCount>>

\* while (!_is_stop.load()): the next iteration begins, or _work() returns
WorkCheck(w) ==
    /\ sched = "workload" /\ Alive
    /\ wpc[w] = "check"
    /\ wpc' = [wpc EXCEPT ![w] = IF is_stop THEN "exited" ELSE "get"]
    /\ wclosed' = wclosed \ {w}
    /\ wafter' = IF is_stop THEN [wafter EXCEPT ![w] = 0] ELSE wafter
    /\ UNCHANGED <<gvars, sched, cur, other, wput, nResub, ran, known,
                   is_stop, queue, qshut, pool, wcur, opc, oi, startStatus,
                   stops, ppc, pitem, pres, nPuts, putCount, getCount>>

\* the body of blocking_get once its wait is over: the closed signal (false)
\* sends the worker back to the loop condition, an entry is executed
GetFinish(w) ==
    IF qshut
    THEN /\ wpc' = [wpc EXCEPT ![w] = "check"]
         /\ wclosed' = wclosed \cup {w}
         /\ UNCHANGED <<queue, wcur, getCount, wafter>>
    ELSE /\ wpc' = [wpc EXCEPT ![w] = "exec"]
         /\ wcur' = [wcur EXCEPT ![w] = front(queue)]
         /\ queue' = pop_front(queue)
         /\ getCount' = getCount + 1
         /\ wafter' = [wafter EXCEPT ![w] = IF is_stop THEN @ + 1 ELSE @]
         /\ UNCHANGED wclosed

\* if (_scan_task_queue->blocking_get(&scan_task)): returns at once, or waits
WorkGet(w) ==
    /\ sched = "workload" /\ Alive
    /\ wpc[w] = "get"
    /\ IF get_ready
       THEN GetFinish(w)
       ELSE /\ wpc' = [wpc EXCEPT ![w] = "get_wait"]
            /\ UNCHANGED <<queue, wcur, getCount, wclosed, wafter>>
    /\ UNCHANGED <<gvars, sched, cur, other, wput, nResub, ran, known,
                   is_stop, qshut, pool, opc, oi, startStatus, stops, ppc,
                   pitem, pres, nPuts, putCount>>

\* a worker waiting in blocking_get is woken
WorkGetWake(w) ==
    /\ sched = "workload" /\ Alive
    /\ wpc[w] = "get_wait"
    /\ get_ready
    /\ GetFinish(w)
    /\ UNCHANGED <<gvars, sched, cur, other, wput, nResub, ran, known,
                   is_stop, qshut, pool, opc, oi, startStatus, stops, ppc,
                   pitem, pres, nPuts, putCount>>

\* a loop that a failed scan step ends
WorkExecFailExit(w) ==
    /\ sched = "workload" /\ Alive
    /\ wpc[w] = "exec"
    /\ wpc' = [wpc EXCEPT ![w] = IF Fails(wcur[w].task) THEN "exited" ELSE "check"]
    /\ wcur' = [wcur EXCEPT ![w] = NoTask]
    /\ ran' = ran \cup {wcur[w].task}
    /\ UNCHANGED <<gvars, sched, cur, other, wput, nResub, wclosed, wafter,
                   known, is_stop, queue, qshut, pool, opc, oi, startStatus,
                   stops, ppc, pitem, pres, nPuts, putCount, getCount>>

\* a loop that ends after its first scan step
WorkExecOnce(w) ==
    /\ sched = "workload" /\ Alive
    /\ wpc[w] = "exec"
    /\ wpc' = [wpc EXCEPT ![w] = "exited"]
    /\ wcur' = [wcur EXCEPT ![w] = NoTask]
    /\ ran' = ran \cup {wcur[w].task}
    /\ UNCHANGED <<gvars, sched, cur, other, wput, nResub, wclosed, wafter,
                   known, is_stop, queue, qshut, pool, opc, oi, startStatus,
                   stops, ppc, pitem, pres, nPuts, putCount, getCount>>

\* scan_task.scan_func() returns, whether the step succeeded or failed (it
\* returns nothing); the iteration's scan_task goes out of scope
WorkExec(w) ==
    /\ sched = "workload" /\ Alive
    /\ wpc[w] = "exec"
    /\ wpc' = [wpc EXCEPT ![w] = "check"]
    /\ wcur' = [wcur EXCEPT ![w] = NoTask]
    /\ ran' = ran \cup {wcur[w].task}
    /\ UNCHANGED <<gvars, sched, cur, other, wput, nResub, wclosed, wafter,
                   known, is_stop, queue, qshut, pool, opc, oi, startStatus,
                   stops, ppc, pitem, pres, nPuts, putCount, getCount>>

(* ------------------- scan steps that resubmit work -------------------- *)

\* the body of blocking_put once its wait is over, called from the step
\* that worker w runs: the step goes on
StepPutFinish(w, t, waited) ==
    /\ wpc' = [wpc EXCEPT ![w] = "exec"]
    /\ wput' = [wput EXCEPT ![w] = 0]
    /\ IF qshut
       THEN UNCHANGED <<queue, putCount>>
       ELSE /\ queue' = push_back(queue, ScanTaskOf(t, putCount + 1, waited))
            /\ putCount' = putCount + 1

\* the step that worker w runs resubmits more work, task t, by
\* get_scan_queue()->blocking_put: the call completes at once, or waits
StepPutCall(w, t) ==
    /\ sched = "workload" /\ Alive
    /\ wpc[w] = "exec"
    /\ nResub < MaxResubmits
    /\ Free(t)
    /\ t <= known + 1
    /\ known' = IF t > known THEN t ELSE known
    /\ nResub' = nResub + 1
    /\ IF put_ready
       THEN StepPutFinish(w, t, FALSE)
       ELSE /\ wpc' = [wpc EXCEPT ![w] = "step_put"]
            /\ wput' = [wput EXCEPT ![w] = t]
            /\ UNCHANGED <<queue, putCount>>
    /\ UNCHANGED <<gvars, sched, cur, other, wclosed, wafter, ran, is_stop,
                   qshut, pool, wcur, opc, oi, startStatus, stops, ppc, pitem,
                   pres, nPuts, getCount>>

\* a step waiting in blocking_put is woken
StepPutWake(w) ==
    /\ sched = "workload" /\ Alive
    /\ wpc[w] = "step_put"
    /\ put_ready
    /\ StepPutFinish(w, wput[w], TRUE)
    /\ UNCHANGED <<gvars, sched, cur, other, wclosed, wafter, ran, known,
                   nResub, is_stop, qshut, pool, wcur, opc, oi, startStatus,
                   stops, ppc, pitem, pres, nPuts, getCount>>

(* ------------------------------- start -------------------------------- *)

\* ThreadPoolBuilder(...).build(&_scan_thread_pool): builds the pool, or fails
\* and start() returns the error
StartBuild ==
    /\ sched = "workload" /\ Alive
    /\ opc = "idle" /\ startStatus = "none" /\ stops = 0
    /\ \/ /\ pool' = "running"
          /\ opc' = "start_loop"
          /\ oi' = 0
          /\ UNCHANGED startStatus
       \/ /\ startStatus' = "error"
          /\ UNCHANGED <<pool, opc, oi>>
    /\ UNCHANGED <<gvars, sched, cur, other, wput, nResub, wclosed, wafter,
                   ran, known, is_stop, queue, qshut, wpc, wcur, stops, ppc,
                   pitem, pres, nPuts, putCount, getCount>>

\* a loop iteration that counts a worker loop it did not launch
StartSubmitSkip ==
    /\ sched = "workload" /\ Alive
    /\ opc = "start_loop"
    /\ oi < doris_scanner_thread_pool_thread_num
    /\ \/ /\ wpc' = [wpc EXCEPT ![oi + 1] = IF oi = 0 THEN "check" ELSE @]
          /\ oi' = oi + 1
          /\ UNCHANGED <<opc, startStatus>>
       \/ /\ startStatus' = "error"
          /\ opc' = "idle"
          /\ UNCHANGED <<wpc, oi>>
    /\ UNCHANGED <<gvars, sched, cur, other, wput, nResub, wclosed, wafter,
                   ran, known, is_stop, queue, qshut, pool, wcur, stops, ppc,
                   pitem, pres, nPuts, putCount, getCount>>

\* one iteration of the for loop: submit_func launches the next worker loop,
\* or fails and start() returns the error
StartSubmit ==
    /\ sched = "workload" /\ Alive
    /\ opc = "start_loop"
    /\ oi < doris_scanner_thread_pool_thread_num
    /\ \/ /\ wpc' = [wpc EXCEPT ![oi + 1] = "check"]
          /\ oi' = oi + 1
          /\ UNCHANGED <<opc, startStatus>>
       \/ /\ startStatus' = "error"
          /\ opc' = "idle"
          /\ UNCHANGED <<wpc, oi>>
    /\ UNCHANGED <<gvars, sched, cur, other, wput, nResub, wclosed, wafter,
                   ran, known, is_stop, queue, qshut, pool, wcur, stops, ppc,
                   pitem, pres, nPuts, putCount, getCount>>

\* the loop is over: return Status::OK()
StartReturn ==
    /\ sched = "workload" /\ Alive
    /\ opc = "start_loop"
    /\ oi = doris_scanner_thread_pool_thread_num
    /\ startStatus' = "ok"
    /\ opc' = "idle"
    /\ UNCHANGED <<gvars, sched, cur, other, wput, nResub, wclosed, wafter,
                   ran, known, is_stop, queue, qshut, pool, wpc, wcur, oi,
                   stops, ppc, pitem, pres, nPuts, putCount, getCount>>

(* -------------------------------- stop -------------------------------- *)

\* ThreadPool::wait returns when no worker of the pool is running
Running(w) == wpc[w] \in {"check", "get", "get_wait", "exec", "step_put"}
pool_idle == \A w \in Workers : ~Running(w)

\* a stop() that shuts the queue down without storing to _is_stop
StopNoFlag ==
    /\ sched = "workload" /\ Alive
    /\ cur = "A"
    /\ opc = "idle"
    /\ stops < MaxStops
    /\ opc' = "stop_queue"
    /\ UNCHANGED <<gvars, sched, cur, other, wput, nResub, wclosed, wafter,
                   ran, known, is_stop, queue, qshut, pool, wpc, wcur, oi,
                   startStatus, stops, ppc, pitem, pres, nPuts, putCount,
                   getCount>>

\* _is_stop.store(true), by an explicit stop() or by the destructor
StopSetFlag ==
    /\ sched = "workload" /\ Alive
    /\ cur = "A"
    /\ opc = "idle"
    /\ stops < MaxStops
    /\ is_stop' = TRUE
    /\ opc' = "stop_queue"
    /\ UNCHANGED <<gvars, sched, cur, other, wput, nResub, wclosed, wafter,
                   ran, known, queue, qshut, pool, wpc, wcur, oi, startStatus,
                   stops, ppc, pitem, pres, nPuts, putCount, getCount>>

\* a stop() that leaves the queue open
StopSkipQueueShutdown ==
    /\ sched = "workload" /\ Alive
    /\ opc = "stop_queue"
    /\ opc' = "stop_pool"
    /\ UNCHANGED <<gvars, sched, cur, other, wput, nResub, wclosed, wafter,
                   ran, known, is_stop, queue, qshut, pool, wpc, wcur, oi,
                   startStatus, stops, ppc, pitem, pres, nPuts, putCount,
                   getCount>>

\* _scan_task_queue->shutdown()
StopQueueShutdown ==
    /\ sched = "workload" /\ Alive
    /\ opc = "stop_queue"
    /\ qshut' = TRUE
    /\ opc' = "stop_pool"
    /\ UNCHANGED <<gvars, sched, cur, other, wput, nResub, wclosed, wafter,
                   ran, known, is_stop, queue, pool, wpc, wcur, oi,
                   startStatus, stops, ppc, pitem, pres, nPuts, putCount,
                   getCount>>

\* _scan_thread_pool->shutdown(): through a null pointer when start() never
\* built the pool
StopPoolShutdown ==
    /\ sched = "workload" /\ Alive
    /\ opc = "stop_pool"
    /\ IF pool = "null"
       THEN /\ opc' = "fault"
            /\ UNCHANGED pool
       ELSE /\ pool' = "shutdown"
            /\ opc' = "stop_wait"
    /\ UNCHANGED <<gvars, sched, cur, other, wput, nResub, wclosed, wafter,
                   ran, known, is_stop, queue, qshut, wpc, wcur, oi,
                   startStatus, stops, ppc, pitem, pres, nPuts, putCount,
                   getCount>>

\* a stop() that returns without waiting for the pool
StopPoolNoWait ==
    /\ sched = "workload" /\ Alive
    /\ opc = "stop_wait"
    /\ opc' = "idle"
    /\ stops' = stops + 1
    /\ UNCHANGED <<gvars, sched, cur, other, wput, nResub, wclosed, wafter,
                   ran, known, is_stop, queue, qshut, pool, wpc, wcur, oi,
                   startStatus, ppc, pitem, pres, nPuts, putCount, getCount>>

\* a stop() that releases the pool once it has waited for it
StopPoolWaitReset ==
    /\ sched = "workload" /\ Alive
    /\ opc = "stop_wait"
    /\ pool_idle
    /\ opc' = "idle"
    /\ stops' = stops + 1
    /\ pool' = "null"
    /\ UNCHANGED <<gvars, sched, cur, other, wput, nResub, wclosed, wafter,
                   ran, known, is_stop, queue, qshut, wpc, wcur, oi,
                   startStatus, ppc, pitem, pres, nPuts, putCount, getCount>>

\* _scan_thread_pool->wait(), then stop() returns
StopPoolWait ==
    /\ sched = "workload" /\ Alive
    /\ opc = "stop_wait"
    /\ pool_idle
    /\ opc' = "idle"
    /\ stops' = stops + 1
    /\ UNCHANGED <<gvars, sched, cur, other, wput, nResub, wclosed, wafter,
                   ran, known, is_stop, queue, qshut, pool, wpc, wcur, oi,
                   startStatus, ppc, pitem, pres, nPuts, putCount, getCount>>

(* ========================== ScannerScheduler ========================== *)

\* an entry of a priority pool: the task, its context, the fairness key
\* computed at submission and the arrival stamp
GTask(t, k, a) == [task |-> t, ctx |-> CtxOf(t), key |-> k, arr |-> a]

\* a pool thread that executes nothing
NoG == [task |-> 0, ctx |-> 0, key |-> 0, arr |-> 0]

\* a task the context may submit: it is neither pending nor executing
GFree(t) ==
    /\ \A l \in Lanes : \A e \in pending[l] : e.task # t
    /\ \A l \in Lanes : \A w \in GWorkers : grun[l][w].task # t

\* the fairness key of a submission: the cumulative service of its context
\* at submission time
FairnessKey(c) == service[c]

\* e is ordered before f in a priority pool: lower key first, ties by arrival
Before(e, f) == e.key < f.key \/ (e.key = f.key /\ e.arr <= f.arr)

\* a pool that takes the oldest pending entry whatever its key
PickOldest(S) == CHOOSE e \in S : \A f \in S : e.arr <= f.arr

\* the entry a pool thread takes from the pending set S
PickNext(S) == CHOOSE e \in S : \A f \in S : Before(e, f)

\* init(env): builds the pools; a second call changes nothing
GInit ==
    /\ sched = "global"
    /\ ~g_is_init
    /\ g_is_init' = TRUE
    /\ UNCHANGED <<sched, wvars, g_is_closed, gpc, gstops, pending, grun,
                   service, gArr, gSubmits, gRejected>>

\* a submit that does not look at _is_closed
GSubmitUnchecked(t, l) ==
    /\ sched = "global"
    /\ g_is_init
    /\ gSubmits < GMaxSubmits
    /\ GFree(t)
    /\ gSubmits' = gSubmits + 1
    /\ pending' = [pending EXCEPT
           ![l] = @ \cup {GTask(t, FairnessKey(CtxOf(t)), gArr + 1)}]
    /\ gArr' = gArr + 1
    /\ UNCHANGED <<sched, wvars, g_is_init, g_is_closed, gpc, gstops, grun,
                   service, gRejected>>

\* submit(ctx, scan_task): rejected once the scheduler is closed; otherwise
\* the task is handed to the pool of its lane with its fairness key
GSubmit(t, l) ==
    /\ sched = "global"
    /\ g_is_init
    /\ gSubmits < GMaxSubmits
    /\ GFree(t)
    /\ gSubmits' = gSubmits + 1
    /\ IF g_is_closed
       THEN /\ gRejected' = gRejected + 1
            /\ UNCHANGED <<pending, gArr>>
       ELSE /\ pending' = [pending EXCEPT
                  ![l] = @ \cup {GTask(t, FairnessKey(CtxOf(t)), gArr + 1)}]
            /\ gArr' = gArr + 1
            /\ UNCHANGED gRejected
    /\ UNCHANGED <<sched, wvars, g_is_init, g_is_closed, gpc, gstops, grun,
                   service>>

\* an idle thread of pool l takes the next pending task and starts its step
GPick(l, w) ==
    /\ sched = "global"
    /\ g_is_init /\ ~g_is_closed
    /\ grun[l][w] = NoG
    /\ pending[l] # {}
    /\ grun' = [grun EXCEPT ![l][w] = PickNext(pending[l])]
    /\ pending' = [pending EXCEPT ![l] = @ \ {PickNext(pending[l])}]
    /\ UNCHANGED <<sched, wvars, g_is_init, g_is_closed, gpc, gstops, service,
                   gArr, gSubmits, gRejected>>

\* _scanner_scan returns: the step is over and its context has received one
\* more unit of service
GStepDone(l, w) ==
    /\ sched = "global"
    /\ grun[l][w] # NoG
    /\ service' = [service EXCEPT ![grun[l][w].ctx] = @ + 1]
    /\ grun' = [grun EXCEPT ![l][w] = NoG]
    /\ UNCHANGED <<sched, wvars, g_is_init, g_is_closed, gpc, gstops, pending,
                   gArr, gSubmits, gRejected>>

\* stop(): on a closed scheduler it returns at once; otherwise it sets
\* _is_closed, shuts the pools down (their pending tasks are dropped) and
\* goes on to join the pool threads
GStop ==
    /\ sched = "global"
    /\ g_is_init
    /\ gpc = "idle"
    /\ gstops < MaxStops
    /\ IF g_is_closed
       THEN /\ gstops' = gstops + 1
            /\ UNCHANGED <<g_is_closed, pending, gpc>>
       ELSE /\ g_is_closed' = TRUE
            /\ pending' = [l \in Lanes |-> {}]
            /\ gpc' = "join"
            /\ UNCHANGED gstops
    /\ UNCHANGED <<sched, wvars, g_is_init, grun, service, gArr, gSubmits,
                   gRejected>>

\* stop() joins the pool threads and returns
GStopJoin ==
    /\ sched = "global"
    /\ gpc = "join"
    /\ \A l \in Lanes : \A w \in GWorkers : grun[l][w] = NoG
    /\ gpc' = "idle"
    /\ gstops' = gstops + 1
    /\ UNCHANGED <<sched, wvars, g_is_init, g_is_closed, pending, grun,
                   service, gArr, gSubmits, gRejected>>

\* the state the constructor of ScannerScheduler leaves
InitGlobal ==
    /\ g_is_init = FALSE
    /\ g_is_closed = FALSE
    /\ gpc = "idle"
    /\ gstops = 0
    /\ pending = [l \in Lanes |-> {}]
    /\ grun = [l \in Lanes |-> [w \in GWorkers |-> NoG]]
    /\ service = [c \in Ctxs |-> 0]
    /\ gArr = 0
    /\ gSubmits = 0
    /\ gRejected = 0

NextGlobal ==
    \/ GInit
    \/ \E t \in Tasks, l \in Lanes : GSubmit(t, l)
    \/ \E l \in Lanes, w \in GWorkers : GPick(l, w)
    \/ \E l \in Lanes, w \in GWorkers : GStepDone(l, w)
    \/ GStop
    \/ GStopJoin

(* ---------------------------- specification --------------------------- *)

\* the state the constructor leaves
InitInstance ==
    /\ is_stop = FALSE
    /\ queue = <<>>
    /\ qshut = FALSE
    /\ pool = "null"
    /\ wpc = [w \in Workers |-> "none"]
    /\ wcur = [w \in Workers |-> NoTask]
    /\ opc = "idle"
    /\ oi = 0
    /\ startStatus = "none"
    /\ stops = 0
    /\ ppc = [p \in Producers |-> "idle"]
    /\ pitem = [p \in Producers |-> NoItem]
    /\ pres = [p \in Producers |-> NoResult]
    /\ nPuts = 0
    /\ putCount = 0
    /\ getCount = 0
    /\ ran = {}
    /\ known = 0
    /\ wclosed = {}
    /\ wafter = [w \in Workers |-> 0]
    /\ wput = [w \in Workers |-> 0]
    /\ nResub = 0

InitWorkload ==
    /\ InitInstance
    \* there is one instance: the second is never started nor stopped
    /\ cur = "A"
    /\ other = Constructed

Init ==
    /\ sched \in {"workload", "global"}
    /\ InitWorkload
    /\ InitGlobal

NextWorkload ==
    \/ \E p \in Producers, t \in Tasks : PutCall(p, t)
    \/ \E p \in Producers : PutWake(p)
    \/ \E w \in Workers : WorkCheck(w)
    \/ \E w \in Workers : WorkGet(w)
    \/ \E w \in Workers : WorkGetWake(w)
    \/ \E w \in Workers : WorkExec(w)
    \/ StartBuild
    \/ StartSubmit
    \/ StartReturn
    \/ StopSetFlag
    \/ StopQueueShutdown
    \/ StopPoolShutdown
    \/ StopPoolWait

Next == NextWorkload \/ NextGlobal

Spec == Init /\ [][Next]_vars

\* a behaviour of the workload scheduler
InitLive ==
    /\ sched = "workload"
    /\ InitWorkload
    /\ InitGlobal

\* the workload scheduler with its workers' wake-up from blocking_get
\* scheduled fairly: shutdown() notifies every waiting thread, and the
\* operating system runs a thread that can run
LiveSpec ==
    /\ InitLive
    /\ [][NextWorkload]_vars
    /\ \A w \in Workers : WF_vars(WorkGetWake(w))

\* the workload scheduler with its threads scheduled fairly: a worker that
\* can take its next statement takes it, every scan step returns, and a
\* thread that a free slot, an entry or the shutdown of the queue lets leave
\* its wait leaves it
FairSpec ==
    /\ InitLive
    /\ [][NextWorkload]_vars
    /\ \A w \in Workers :
          /\ WF_vars(WorkCheck(w))
          /\ WF_vars(WorkGet(w))
          /\ WF_vars(WorkGetWake(w))
          /\ WF_vars(WorkExec(w))
    /\ \A p \in Producers : WF_vars(PutWake(p))

\* the steps of a workload scheduler on which stop() is not called
NextNoStop ==
    \/ \E p \in Producers, t \in Tasks : PutCall(p, t)
    \/ \E p \in Producers : PutWake(p)
    \/ \E w \in Workers : WorkCheck(w)
    \/ \E w \in Workers : WorkGet(w)
    \/ \E w \in Workers : WorkGetWake(w)
    \/ \E w \in Workers : WorkExec(w)
    \/ StartBuild
    \/ StartSubmit
    \/ StartReturn

\* the workload scheduler without a call of stop(), its workers scheduled
\* fairly and every scan step returning
ProgressSpec ==
    /\ InitLive
    /\ [][NextNoStop]_vars
    /\ \A w \in Workers :
          /\ WF_vars(WorkCheck(w))
          /\ WF_vars(WorkGet(w))
          /\ WF_vars(WorkGetWake(w))
          /\ WF_vars(WorkExec(w))

\* the steps of a workload scheduler whose scan steps resubmit work through
\* the queue their workers pull from, stop() not called
NextResubmit ==
    \/ NextNoStop
    \/ \E w \in Workers, t \in StepTasks : StepPutCall(w, t)
    \/ \E w \in Workers : StepPutWake(w)

ResubmitSpec == InitLive /\ [][NextResubmit]_vars

\* two instances in one process: the first as its constructor leaves it,
\* the second started, with an entry in its queue
InitPair ==
    /\ sched = "workload"
    /\ InitInstance
    /\ InitGlobal
    /\ cur = "A"
    /\ other = StartedWithEntry

NextPair == NextWorkload \/ Switch

PairSpec == InitPair /\ [][NextPair]_vars

(* ================================ claims ============================== *)

N == doris_scanner_thread_pool_queue_size

\* a step in which some producer calls blocking_put
PutCalled == nPuts' = nPuts + 1

C1_Step ==
    sched = "workload" =>
        \* a call begins to wait only when N entries are queued
        /\ \A p \in Producers :
              (ppc[p] = "idle" /\ ppc'[p] = "put_wait") => (Len(queue) = N /\ ~qshut)
        \* a call made with fewer than N entries queued completes in its
        \* own step with its entry added, and nobody starts to wait
        /\ (PutCalled /\ Len(queue) < N /\ ~qshut) =>
              /\ ppc' = ppc
              /\ putCount' = putCount + 1
              /\ Len(queue') = Len(queue) + 1
        \* a call made with N entries queued waits
        /\ (PutCalled /\ Len(queue) = N /\ ~qshut) =>
              /\ \E p \in Producers : ppc[p] = "idle" /\ ppc'[p] = "put_wait"
              /\ queue' = queue
        \* a waiting call completes only once a dequeue has freed a slot, or
        \* the queue is shut down
        /\ \A p \in Producers :
              (ppc[p] = "put_wait" /\ ppc'[p] = "idle") => (Len(queue) < N \/ qshut)

\* C1: the queue of a SimplifiedScanScheduler never holds more than N =
\* doris_scanner_thread_pool_queue_size entries; an enqueue made while fewer
\* than N entries are queued completes without waiting, and one made while N
\* are queued waits until a dequeue has freed a slot or the queue is shut down.
C1_BoundedQueue ==
    /\ [](sched = "workload" => Len(queue) <= N)
    /\ [][C1_Step]_vars

\* C1 witness: N enqueues completed without waiting, the queue is full and a
\* further producer is waiting in blocking_put
C1_Witness ==
    /\ sched = "workload"
    /\ putCount = N /\ Len(queue) = N /\ ~qshut
    /\ \A i \in 1..Len(queue) : ~queue[i].waited
    /\ \E p \in Producers : ppc[p] = "put_wait"

\* what stop() leaves of a SimplifiedScanScheduler
StoppedState == <<is_stop, queue, qshut, pool, wpc, wcur>>

\* the result a blocking_put made now returns on a closed queue
ClosedNow == [res |-> "closed", stops |-> stops]

C2_Step ==
    (sched = "workload" /\ startStatus = "ok" /\ stops >= 1 /\ PutCalled) =>
        \* the call does not wait, adds nothing and returns failure
        /\ ppc' = ppc
        /\ queue' = queue /\ putCount' = putCount
        /\ \E p \in Producers : pres' = [pres EXCEPT ![p] = ClosedNow]

\* C2: once stop() has returned on a started scheduler no worker is inside
\* _work() any more, and every blocking_put called from then on returns
\* failure in its own step, without waiting and without adding an entry.
C2_StoppedMeansQuiet ==
    /\ []((sched = "workload" /\ startStatus = "ok" /\ stops >= 1) =>
             \A w \in Workers : wpc[w] = "exited")
    /\ []((sched = "workload" /\ startStatus = "ok" /\ stops >= 1) =>
             \A p \in Producers : ppc[p] = "put_wait" => put_ready)
    /\ [][C2_Step]_vars

\* C2 witness: start() succeeded, stop() has returned, every worker loop has
\* exited and a blocking_put called after that return came back closed
C2_Witness ==
    /\ sched = "workload" /\ startStatus = "ok" /\ stops >= 1
    /\ \A w \in Workers : wpc[w] = "exited"
    /\ \E p \in Producers : pres[p].res = "closed" /\ pres[p].stops >= 1

\* stop() is past its call of _scan_task_queue->shutdown()
PastQueueShutdown == opc \in {"stop_pool", "stop_wait"} \/ stops >= 1

C3_Step ==
    sched = "workload" =>
        \A w \in Workers :
            (wpc[w] = "get_wait" /\ PastQueueShutdown /\ wpc'[w] # "get_wait") =>
                \* blocking_get returned false: no task, back to the loop test
                /\ wpc'[w] = "check"
                /\ wcur'[w] = NoTask
                /\ queue' = queue /\ getCount' = getCount

\* C3: every worker that is waiting in blocking_get when stop() has shut the
\* queue down is eventually woken, and what it gets is the closed signal:
\* blocking_get returns false and hands no task out.
C3_ShutdownWakesAll ==
    /\ [][C3_Step]_vars
    /\ \A w \in Workers :
          (sched = "workload" /\ wpc[w] = "get_wait" /\ PastQueueShutdown)
              ~> (wpc[w] # "get_wait")

\* C3 witness: the queue has just been shut down with every worker of the
\* pool waiting in blocking_get on the empty queue
C3_Witness ==
    /\ sched = "workload"
    /\ opc = "stop_pool" /\ qshut /\ queue = <<>>
    /\ \A w \in Workers : wpc[w] = "get_wait"

\* what stop() leaves of a ScannerScheduler
GStoppedState == <<g_is_init, g_is_closed, pending, grun, service>>

\* C4: a stop() called after a stop() has returned (the destructor's call
\* after an explicit stop() included) raises no fault, does not wait for a
\* pool that still runs, and leaves the scheduler in the state the first
\* call left; the same holds of ScannerScheduler::stop().
C4_StopIdempotent ==
    /\ []((sched = "workload" /\ stops >= 1) => opc # "fault")
    /\ []((sched = "workload" /\ stops >= 1 /\ opc = "stop_wait") => pool_idle)
    /\ [][(sched = "workload" /\ stops >= 1) => StoppedState' = StoppedState]_vars
    /\ []((sched = "global" /\ gstops >= 1) => gpc = "idle")
    /\ [][(sched = "global" /\ gstops >= 1) => GStoppedState' = GStoppedState]_vars

\* C4 witness: a second stop() has returned on a scheduler whose start()
\* had launched its workers
C4_Witness ==
    /\ sched = "workload" /\ startStatus = "ok"
    /\ stops = 2 /\ opc = "idle"
    /\ is_stop /\ qshut /\ pool = "shutdown"

\* the workers of the workload scheduler that execute task t
Executing(t) == {w \in Workers : wpc[w] = "exec" /\ wcur[w].task = t}

\* the threads of the global scheduler's pools that execute task t
GExecuting(t) == {x \in Lanes \X GWorkers : grun[x[1]][x[2]].task = t}

\* C5: no task executes on two threads at once: at most one worker executes
\* a given task, an entry that a worker holds is no longer in the queue, no
\* two workers hold the same entry, and a task that is queued or waiting to
\* be enqueued is not executing.
C5_NoConcurrentSelf ==
    /\ \A t \in Tasks : Cardinality(Executing(t)) <= 1
    /\ \A t \in Tasks : Cardinality(GExecuting(t)) <= 1
    /\ \A w \in Workers : \A i \in 1..Len(queue) :
          wpc[w] = "exec" => (queue[i].seq # wcur[w].seq /\ queue[i].task # wcur[w].task)
    /\ \A w1, w2 \in Workers :
          (w1 # w2 /\ wpc[w1] = "exec" /\ wpc[w2] = "exec") => wcur[w1].seq # wcur[w2].seq
    /\ \A l \in Lanes : \A e \in pending[l] : GExecuting(e.task) = {}

\* C5 witness: a task that has been executed before is executing again, on
\* one worker, while another worker executes another task
C5_Witness ==
    /\ sched = "workload"
    /\ \E w1, w2 \in Workers :
          /\ w1 # w2
          /\ wpc[w1] = "exec" /\ wpc[w2] = "exec"
          /\ wcur[w1].task \in ran
          /\ wcur[w1].task # wcur[w2].task

\* thread w of pool l takes a pending task in this step
Picks(l, w) == grun[l][w] = NoG /\ grun'[l][w] # NoG

C6_Step ==
    sched = "global" =>
        /\ \A l \in Lanes : \A w \in GWorkers :
              Picks(l, w) =>
                  /\ grun'[l][w] \in pending[l]
                  /\ pending'[l] = pending[l] \ {grun'[l][w]}
                  /\ \A f \in pending[l] :
                        \* no pending task of the pool has a lower key
                        /\ grun'[l][w].key <= f.key
                        \* among equal keys the earliest arrival is taken
                        /\ f.key = grun'[l][w].key => grun'[l][w].arr <= f.arr
                  \* one context only: first in, first out
                  /\ (\A f \in pending[l] : f.ctx = grun'[l][w].ctx) =>
                        \A f \in pending[l] : grun'[l][w].arr <= f.arr
        \* the key of an accepted submission is the cumulative service its
        \* context has at that moment
        /\ gArr' = gArr + 1 =>
              \E l \in Lanes : \E e \in pending'[l] :
                  /\ pending'[l] = pending[l] \cup {e}
                  /\ e \notin pending[l]
                  /\ e.arr = gArr + 1
                  /\ e.key = service[e.ctx]

C7_Step ==
    (sched = "global" /\ g_is_closed) =>
        \* stopped is terminal
        /\ g_is_closed'
        \* a submit is rejected
        /\ gSubmits' = gSubmits + 1 => gRejected' = gRejected + 1
        \* no task is handed to a pool
        /\ \A l \in Lanes : pending'[l] \subseteq pending[l]
        /\ gArr' = gArr
        \* no scan step starts
        /\ \A l \in Lanes : \A w \in GWorkers : ~Picks(l, w)

\* C7: once _is_closed is set it stays set, every submit is rejected, no task
\* is handed to a pool and no pool thread starts a scan step.
C7_ClosedRejects == [][C7_Step]_vars

\* C7 witness: stop() has returned and a submit made on the closed
\* scheduler has been rejected
C7_Witness ==
    /\ sched = "global"
    /\ g_is_closed /\ gstops >= 1
    /\ gRejected >= 1
    /\ gArr >= 1

\* C8: whenever start() has returned an error no worker loop of the
\* scheduler is running.
C8_NoPartialPool ==
    (sched = "workload" /\ startStatus = "error") => \A w \in Workers : ~Running(w)

C9_Step ==
    sched = "workload" =>
        \* a dequeue hands out the head, the oldest entry
        /\ getCount' = getCount + 1 =>
              /\ queue # <<>>
              /\ queue' = Tail(queue)
              /\ \E w \in Workers :
                    wcur' = [wcur EXCEPT ![w] = Head(queue)] /\ wcur[w] = NoTask
        \* an enqueue that completes puts its entry behind the queued ones
        /\ putCount' = putCount + 1 =>
              /\ Len(queue') = Len(queue) + 1
              /\ SubSeq(queue', 1, Len(queue)) = queue
              /\ queue'[Len(queue')].seq = putCount + 1
              /\ \A p \in Producers :
                    ppc[p] = "put_wait" /\ ppc'[p] = "idle" =>
                        /\ queue'[Len(queue')].task = pitem[p].task
                        /\ queue'[Len(queue')].waited

\* C9: the queue is first in, first out: it holds the entries whose enqueues
\* completed and that were not dequeued yet, in the order those enqueues
\* completed; a dequeue hands out the head; the entry of a producer that
\* waited on the full queue goes behind the entries queued when its slot
\* frees.
C9_Fifo ==
    /\ [](sched = "workload" =>
             /\ Len(queue) = putCount - getCount
             /\ \A i \in 1..Len(queue) : queue[i].seq = getCount + i)
    /\ [][C9_Step]_vars

\* C9 witness: capacity 2; A = 1 and B = 2 were enqueued at once, C = 3
\* waited; a worker dequeued A; the queue holds B, C in that order
C9_Witness ==
    /\ sched = "workload"
    /\ max_elements = 2
    /\ getCount = 1
    /\ \E w \in Workers : wcur[w] = ScanTaskOf(1, 1, FALSE)
    /\ queue = <<ScanTaskOf(2, 2, FALSE), ScanTaskOf(3, 3, TRUE)>>

C10_Step ==
    (sched = "workload" /\ PastQueueShutdown) =>
        \* no entry is added
        /\ putCount' = putCount
        /\ Len(queue') <= Len(queue)
        \* a call made now returns failure at once
        /\ PutCalled =>
              /\ ppc' = ppc
              /\ \E p \in Producers : pres' = [pres EXCEPT ![p] = ClosedNow]
        \* a call that was waiting returns failure
        /\ \A p \in Producers :
              ppc[p] = "put_wait" /\ ppc'[p] = "idle" => pres'[p].res = "closed"

\* C10 as amended: from the moment stop() has shut the queue down (its
\* second statement) every enqueue attempt fails and no entry is added to
\* the queue; between the store to _is_stop and that shutdown an enqueue
\* still succeeds.
C10_NoEnqueueAfterShutdown == [][C10_Step]_vars

\* C10 witness: after the queue was shut down with an entry in it, a
\* producer that was waiting on the full queue got the closed result
C10_Witness ==
    /\ sched = "workload"
    /\ PastQueueShutdown /\ qshut
    /\ Len(queue) = max_elements
    /\ \E p \in Producers : pres[p].res = "closed" /\ ppc[p] = "idle"

\* C10 as stated, for a scheduler that was started: no entry is added once
\* stop() has set _is_stop
C10_AsStated ==
    [][(sched = "workload" /\ startStatus = "ok" /\ is_stop) =>
          putCount' = putCount]_vars

(* --------------------------- behaviour claims ------------------------- *)

T == doris_scanner_thread_pool_thread_num

\* the worker loops of the pool that are running
RunningLoops == {w \in Workers : Running(w)}

\* the error sinks that hold an error: the contexts of the failed steps
errs == {CtxOf(t) : t \in {u \in ran : Fails(u)}}

C11_Step ==
    sched = "workload" =>
        \* a step that runs goes on, with its entry, or returns to the loop
        /\ \A w \in Workers :
              wpc[w] = "exec" =>
                  \/ wpc'[w] = "exec" /\ wcur'[w] = wcur[w]
                  \/ wpc'[w] = "check" /\ wcur[w].task \in ran'
        \* stop() does not return while a step runs
        /\ stops' = stops + 1 => \A w \in Workers : wpc[w] # "exec"

\* C11: a step whose entry a worker has dequeued runs until scan_func
\* returns, whether stop() is called before or while it runs: the worker
\* leaves the step only by the return of scan_func, stop() does not return
\* while a step runs, and no worker holds an entry once stop() has returned.
C11_StepRunsToEnd ==
    /\ [][C11_Step]_vars
    /\ []((sched = "workload" /\ stops >= 1) =>
             \A w \in Workers : wpc[w] # "exec" /\ wcur[w] = NoTask)

\* C11 witness: stop() waits for the pool while a worker runs the step of an
\* entry it dequeued after stop() had stored to _is_stop
C11_Witness ==
    /\ sched = "workload"
    /\ opc = "stop_wait" /\ qshut
    /\ \E w \in Workers : wpc[w] = "exec" /\ wafter[w] = 1 /\ wcur[w] # NoTask

\* C12: at most T = doris_scanner_thread_pool_thread_num worker loops run,
\* so at most T steps execute at once; when start() has returned OK it has
\* launched T loops, and until stop() is called exactly T loops are running.
C12_ExactlyT ==
    sched = "workload" =>
        /\ Cardinality(RunningLoops) <= T
        /\ Cardinality({w \in Workers : wpc[w] = "exec"}) <= T
        /\ (startStatus = "ok" /\ ~is_stop) =>
              /\ oi = T
              /\ Cardinality(RunningLoops) = T

\* C12 witness: start() has returned OK, stop() was not called and each of
\* the T loops executes a step
C12_Witness ==
    /\ sched = "workload"
    /\ startStatus = "ok" /\ ~is_stop
    /\ Cardinality({w \in Workers : wpc[w] = "exec"}) = T

C13_Step ==
    sched = "workload" =>
        \A w \in Workers :
            \* blocking_get returns the closed signal only with the flag set
            /\ (wpc[w] \in {"get", "get_wait"} /\ wpc'[w] = "check") =>
                  (is_stop /\ w \in wclosed' /\ getCount' = getCount)
            \* and the loop test that follows ends the loop
            /\ (w \in wclosed /\ wpc'[w] # wpc[w]) => wpc'[w] = "exited"

\* C13: a worker whose blocking_get returns the closed signal finds _is_stop
\* true at its next loop test and leaves the loop without another dequeue:
\* stop() stores to _is_stop before it shuts the queue down, so the queue is
\* never shut down with the flag false.
C13_ClosedMeansExit ==
    /\ [](sched = "workload" => (qshut => is_stop))
    /\ [](sched = "workload" =>
             \A w \in wclosed : is_stop /\ wpc[w] = "check")
    /\ [][C13_Step]_vars

\* C13 witness: a worker is back at its loop test with the closed signal
\* while another worker of the pool has already left its loop
C13_Witness ==
    /\ sched = "workload"
    /\ \E w1, w2 \in Workers :
          w1 \in wclosed /\ wpc[w1] = "check" /\ wpc[w2] = "exited"
C14_Step ==
    sched = "workload" =>
        \A p \in Producers :
            (ppc[p] = "put_wait" /\ qshut /\ ppc'[p] = "idle") =>
                /\ pres'[p].res = "closed"
                /\ queue' = queue
                /\ putCount' = putCount

\* C14: every producer that waits in blocking_put on the full queue when the
\* queue is shut down eventually leaves the wait; its blocking_put returns
\* failure and the queue keeps the contents it had.
C14_BlockedPutsFail ==
    /\ [][C14_Step]_vars
    /\ \A p \in Producers :
          (sched = "workload" /\ ppc[p] = "put_wait" /\ qshut)
              ~> (ppc[p] = "idle")
\* C17: stop(), called by hand or by the destructor, runs without a fault in
\* every lifecycle state: whenever stop() runs, the pool it shuts down and
\* waits on exists.
C17_StopSafe ==
    sched = "workload" =>
        /\ opc \in {"stop_queue", "stop_pool", "stop_wait"} => pool # "null"
        /\ opc # "fault"
\* the entry whose enqueue was the n-th to complete is in the queue
Queued(n) == \E i \in 1..Len(queue) : queue[i].seq = n

\* the entry whose enqueue was the n-th to complete was dequeued and its
\* step has returned
Executed(n) == n <= getCount /\ \A w \in Workers : wcur[w].seq # n

\* the entries in the queue that belong to a context without an error
QueuedSound(n) ==
    \E i \in 1..Len(queue) : queue[i].seq = n /\ CtxOf(queue[i].task) \notin errs

C16_Step ==
    sched = "workload" =>
        \A w \in Workers :
            (wpc[w] = "exec" /\ wpc'[w] # "exec" /\ Fails(wcur[w].task)) =>
                \* the error is in the sink of the step's own context only
                /\ errs' = errs \cup {CtxOf(wcur[w].task)}
                \* the worker is back at its loop test and no loop has ended
                /\ wpc'[w] = "check"
                /\ RunningLoops' = RunningLoops
                \* the scheduler is as it was
                /\ UNCHANGED <<is_stop, qshut, queue, pool, opc, startStatus>>

\* C16: a scan step that fails leaves its error in the sink of its own
\* context and nothing else: the worker that ran it is back at its loop
\* test, as many loops run as before, the flag, the queue and the pool are
\* untouched, and every queued entry of a context without an error is
\* still executed.
C16_FailedStepIsLocal ==
    /\ [][C16_Step]_vars
    /\ \A n \in 1..MaxPuts :
          (sched = "workload" /\ startStatus = "ok" /\ errs # {} /\ QueuedSound(n))
              ~> Executed(n)

\* C16 witness: after a failed step of one context every loop of the pool
\* is running and a worker executes a task of a context without an error
C16_Witness ==
    /\ sched = "workload"
    /\ startStatus = "ok" /\ errs # {}
    /\ Cardinality(RunningLoops) = T
    /\ \E w \in Workers :
          wpc[w] = "exec" /\ CtxOf(wcur[w].task) \notin errs

C20_Step ==
    sched = "workload" =>
        \* blocking_get hands out each entry once, in the order of the
        \* enqueues, to one worker
        /\ getCount' # getCount =>
              /\ getCount' = getCount + 1
              /\ \E w \in Workers :
                    /\ wpc[w] # "exec" /\ wpc'[w] = "exec"
                    /\ wcur'[w].seq = getCount + 1
                    /\ \A v \in Workers \ {w} : wcur'[v] = wcur[v]
        \* an executed entry is not executed again
        /\ \A n \in 1..MaxPuts : Executed(n) => Executed(n)'

\* C20 (progress while started): with stop() not called, the workers
\* scheduled fairly and every step returning, every entry in the queue of a
\* started scheduler, one enqueued before start() included, is eventually
\* dequeued and executed, and it is executed once.
C20_Progress ==
    /\ [][C20_Step]_vars
    /\ [](sched = "workload" =>
             \A w \in Workers : wpc[w] = "exec" =>
                 /\ wcur[w].seq \in 1..getCount
                 /\ \A v \in Workers \ {w} : wcur[v].seq # wcur[w].seq)
    /\ \A n \in 1..MaxPuts :
          (sched = "workload" /\ startStatus = "ok" /\ Queued(n))
              ~> (Executed(n) \/ is_stop)

\* C20 witness: the scheduler is started, every entry that was enqueued has
\* been dequeued and its step has returned, and the workers wait for more
C20_Witness ==
    /\ sched = "workload"
    /\ startStatus = "ok" /\ ~is_stop
    /\ putCount = MaxPuts /\ getCount = MaxPuts
    /\ \A n \in 1..MaxPuts : Executed(n)
    /\ \A w \in Workers : wpc[w] = "get_wait"
C19_Step ==
    sched = "workload" =>
        \* the flag, once true, stays true
        /\ is_stop => is_stop'
        /\ \A w \in Workers :
              \* with the flag set a loop test ends the loop
              /\ (is_stop /\ wpc[w] = "check" /\ wpc'[w] # "check") =>
                    wpc'[w] = "exited"
              \* a loop that has ended does not run again
              /\ wpc[w] = "exited" => wpc'[w] = "exited"
        \* what is queued when the loops have ended is never dequeued
        /\ (is_stop /\ pool_idle) => (getCount' = getCount /\ pool_idle')

\* C19: once stop() has stored to _is_stop, a worker loop takes at most one
\* more entry from the queue (its blocking_get was past the loop test) and
\* ends at its next loop test; the entries queued when the loops have ended
\* stay unexecuted, and _is_stop never becomes false again.
C19_AtMostOneMoreStep ==
    /\ [](sched = "workload" => \A w \in Workers : wafter[w] <= 1)
    /\ [][C19_Step]_vars

\* C19 witness: with the flag set and the queue shut down, a worker runs the
\* step of the one entry it took after the store, another loop has ended,
\* and an entry is left in the queue
C19_Witness ==
    /\ sched = "workload"
    /\ is_stop /\ qshut /\ queue # <<>>
    /\ \E w1, w2 \in Workers :
          /\ wpc[w1] = "exec" /\ wafter[w1] = 1
          /\ wpc[w2] = "exited"
\* C18: a started scheduler whose steps resubmit work by blocking_put into
\* its own queue is never in a state where every worker is inside a step,
\* waiting in that blocking_put on the full queue.
C18_NoResubmitDeadlock ==
    (sched = "workload" /\ startStatus = "ok" /\ ~qshut) =>
        \E w \in Workers : wpc[w] # "step_put"


\* an action of the instance in view: the view does not move
C15_Step ==
    (sched = "workload" /\ cur' = cur) => other' = other

\* a worker loop of the instance in view can take its next step
C15_WorkerCanStep ==
    \E w \in Workers :
        ENABLED (WorkCheck(w) \/ WorkGet(w) \/ WorkGetWake(w) \/ WorkExec(w))

\* C15: two workload schedulers in one process have separate queues, flags
\* and pools. No action on one of them (an enqueue, a producer blocking on
\* its full queue, a scan step, its stop()) changes the queue, the flag or
\* the worker threads of the other, and while the second is started, not
\* stopped and holds a queued entry, one of its worker loops can always
\* take a step, whatever was done to the first.
C15_Isolation ==
    /\ [][C15_Step]_vars
    /\ [](  (sched = "workload" /\ cur = "B" /\ startStatus = "ok"
             /\ ~is_stop /\ queue # <<>>)
          => C15_WorkerCanStep)

====
